---- MODULE Spec2Model ----
(***************************************************************************)
(* ClawCat front end: the mode/state store (useModeState), the autonomous  *)
(* action scheduler (useAgentActions), the idle gesture scheduler          *)
(* (useStickControl), the reactive puppet controller (useHandControl), the *)
(* resource loader (useResources) and the parameter surface (Live2d).      *)
(*                                                                         *)
(* Everything runs on one event loop.  A step of the model is one task of  *)
(* that loop together with the microtasks it queues: a UI or poll callback *)
(* with the watcher jobs it triggers, a timer or animation-frame callback, *)
(* or the continuation of an async function up to its next await.          *)
(***************************************************************************)
EXTENDS Integers, Sequences, FiniteSets, TLC

\* ------------------------------------------------------------------ bounds
MaxFlights == 1     \* updateModeBehavior invocations suspended at the same time
MaxChains == 2      \* pending cadence timers of one kind (key or pointer)
MaxHolds == 1       \* pending hold-release timers
MaxRequests == 2    \* apiRequest calls awaiting their response at the same time
WalkSteps == 2      \* frames a pointer walk takes: its duration in frame intervals
MaxPulses == 2      \* revert timeouts of the lightning fallback pending at the same time
StickReach == 2     \* largest deflection a retarget draws, in stick units

\* ------------------------------------------------- program constants
LerpDen == 10       \* factor = 0.1 in updateSticks
DeadzoneDen == 10   \* Math.abs(x) > 0.1

Modes == {"slacking", "spying"}
States == <<"resting", "working", "confirming">>
StateSet == {States[i] : i \in 1..Len(States)}
Channels == {"left", "right"}
Groups == <<"left-keys", "right-keys">>
CommonKeys == <<"KeyA">>
TestKeys == {"KeyA"}

StickParams ==
  [left |-> [show |-> "CatParamStickShowLeftHand", down |-> "CatParamStickLeftDown"],
   right |-> [show |-> "CatParamStickShowRightHand", down |-> "CatParamStickRightDown"]]
HandParams == [left |-> "CatParamLeftHandDown", right |-> "CatParamRightHandDown"]
ParamIds == {StickParams[c].show : c \in Channels} \cup {StickParams[c].down : c \in Channels}
            \cup {HandParams[c] : c \in Channels}
ParamChannel(id) ==
  IF id \in {StickParams.left.show, StickParams.left.down} THEN "left"
  ELSE IF id \in {StickParams.right.show, StickParams.right.down} THEN "right"
  ELSE "none"
DefaultParams == [id \in ParamIds |-> FALSE]

\* ------------------------------------------------- static assets
\* MODEL_PATH / RESOURCES_PATH: the model and the resource root of a mode.
ModelPath(m) == IF m = "slacking" THEN "gamepad" ELSE "standard"
ResourcesPath(m) == IF m = "slacking" THEN "gamepad" ELSE "standard"
ModelPaths == {"gamepad", "standard"}
\* The gesture channels a model file may declare: each model file is fixed for
\* a run, chosen in Init.
GamepadCaps == {{"left", "right"}, {"left"}, {}}
StandardCaps == {{}}
\* The key images that exist under a resource root.
FileExists(root, group, key) ==
  \/ root = "standard" /\ <<group, key>> \in {<<"left-keys", "KeyA">>, <<"right-keys", "KeyA">>}
  \/ root = "gamepad" /\ <<group, key>> \in {<<"right-keys", "KeyA">>}
KeyPath(root, group, key) == [root |-> root, group |-> group, key |-> key]
\* `${key}_${group}`; the plain key has no suffix.
FullKey(key, group) == <<key, group>>
PlainKey(key) == <<key, "">>

\* ------------------------------------------------- handle slots
\* A handle variable of the code (agentActionTimer, spyStickRaf, ...) and the
\* callbacks of its kind pending in the event loop: tracked = the variable
\* holds the handle of a pending callback; loose = pending callbacks no
\* variable refers to; stale = loose callbacks that were pending when the
\* scheduler was last stopped.
EmptySlot == [tracked |-> FALSE, loose |-> 0, stale |-> 0]
Pending(s) == (IF s.tracked THEN 1 ELSE 0) + s.loose + s.stale
\* h = setTimeout(...) / requestAnimationFrame(...)
Schedule(s) == [s EXCEPT !.tracked = TRUE, !.loose = @ + (IF s.tracked THEN 1 ELSE 0)]
\* if (h) { clearTimeout(h); h = null }
Cancel(s) == [s EXCEPT !.tracked = FALSE]
\* the callbacks left pending by a stop predate it from now on
MarkStale(s) == [s EXCEPT !.loose = 0, !.stale = @ + s.loose]
Kinds(s) == (IF s.tracked THEN {"tracked"} ELSE {}) \cup (IF s.loose > 0 THEN {"loose"} ELSE {})
            \cup (IF s.stale > 0 THEN {"stale"} ELSE {})
\* the event loop takes a pending callback of kind k to run it
Take(s, k) ==
  IF k = "tracked" THEN [s EXCEPT !.tracked = FALSE]
  ELSE IF k = "loose" THEN [s EXCEPT !.loose = @ - 1]
  ELSE [s EXCEPT !.stale = @ - 1]

VARIABLES
  currentMode, currentState,   \* useModeState refs
  caps,                        \* gesture channels each model file declares
  scope,                       \* what a specification follows beyond the store: the
                               \* revert timeouts ("reverts"), a transition begun
                               \* while another is in flight ("overlap"), a pulse
                               \* made while a hold-release is pending ("pulses"),
                               \* the ratio the pointer walk writes ("pointer")
  model,                       \* live2d.model: "none" or the model path
  stage,                       \* app.stage.children: the paths of the attached models
  params,                      \* boolean parameter values of the attached model
  stickActive,                 \* useStickControl ref
  stickPos, stickTarget,       \* leftStickX.. / targetLeftX.. per channel <<x, y>>
  stickHas,                    \* hasLeftStick / hasRightStick of the running closures
  spyStickTimer, spyStickRaf,  \* handle slots of useStickControl
  agentActionTimer, agentMouseTimer, agentMouseRaf,  \* handle slots of useAgentActions
  supportKeys, backgroundImagePath,                  \* useResources refs
  pressedKeys,                 \* key -> path
  holds,                       \* pending hold-release timers per key
  ownHold,                     \* keys whose entry was put by a pulse with its timer pending
  currentMouseRatio,           \* useAgentActions ref: <<x, y>> in quarters
  walk,                        \* from and target of the pointer walk begun last
  flights,                     \* suspended updateModeBehavior invocations
  currentStatus,               \* useBackend ref: the RemoteStatus record
  requests,                    \* apiRequest calls awaiting their response, oldest first
  polling,                     \* statusPollInterval is set
  confirmingType, confirmingContext, canAlways, needsJumpOnly, jumpOnly,  \* App.vue refs
  userInput,                   \* App.vue ref bound to the input field
  escaped,                     \* an exception left a Status Client function
  lightningReverts,            \* pending revert timeouts of triggerLightning
  last                         \* what the step just taken did

vars == <<currentMode, currentState, caps, scope, model, stage, params, stickActive, stickPos, stickTarget,
          stickHas, spyStickTimer, spyStickRaf, agentActionTimer, agentMouseTimer,
          agentMouseRaf, supportKeys, backgroundImagePath, pressedKeys, holds, ownHold, currentMouseRatio, walk, flights,
          currentStatus, requests, polling, confirmingType, confirmingContext, canAlways,
          needsJumpOnly, jumpOnly, userInput, escaped, lightningReverts, last>>

\* ------------------------------------------------- the world of one step
\* The state as a record, so that a handler is the composition of the
\* functions it calls.  tags collects what the step did; dirty records that
\* a watched ref was assigned a fresh object.
Cur ==
  [currentMode |-> currentMode, currentState |-> currentState, model |-> model,
   stage |-> stage,
   params |-> params, stickActive |-> stickActive, stickPos |-> stickPos,
   stickTarget |-> stickTarget, stickHas |-> stickHas, spyStickTimer |-> spyStickTimer,
   spyStickRaf |-> spyStickRaf, agentActionTimer |-> agentActionTimer,
   agentMouseTimer |-> agentMouseTimer, agentMouseRaf |-> agentMouseRaf,
   supportKeys |-> supportKeys, backgroundImagePath |-> backgroundImagePath,
   pressedKeys |-> pressedKeys, holds |-> holds, ownHold |-> ownHold,
   currentMouseRatio |-> currentMouseRatio, walk |-> walk,
   flights |-> flights,
   currentStatus |-> currentStatus, requests |-> requests, polling |-> polling,
   confirmingType |-> confirmingType, confirmingContext |-> confirmingContext,
   canAlways |-> canAlways, needsJumpOnly |-> needsJumpOnly, jumpOnly |-> jumpOnly,
   userInput |-> userInput, escaped |-> escaped, lightningReverts |-> lightningReverts,
   tags |-> {}, dirty |-> FALSE]

Tag(w, t) == [w EXCEPT !.tags = @ \cup {t}]
Without(f, k) == [x \in DOMAIN f \ {k} |-> f[x]]
RECURSIVE SumOver(_, _)
SumOver(f, S) == IF S = {} THEN 0 ELSE LET x == CHOOSE y \in S : TRUE IN f[x] + SumOver(f, S \ {x})
HoldCount(h) == SumOver(h, DOMAIN h)

\* ------------------------------------------------- Parameter Surface (Live2d)
\* getParameterRange of a gesture axis is non-zero: a model is attached and
\* declares the channel.
HasStickRange(w, c) == w.model # "none" /\ c \in caps[w.model]

\* variant: with a core model every id is written
SetParameterValue_AnyParam(w, id, v) ==
  IF w.model = "none" THEN w ELSE [w EXCEPT !.params[id] = v]

\* the flag setParameterValue returns: false without a core model, else
\* setParameterValueById(...) ?? false, and the core call yields no value
SetParameterValueFlag(w, id, v) == IF w.model = "none" THEN FALSE ELSE FALSE

\* setParameterValue: no core model, or a parameter the model does not declare:
\* no value of the model changes.  A call that reaches the core model with an
\* id it does not declare is recorded under that id.
SetParameterValue(w, id, v) ==
  IF w.model = "none" THEN w
  ELSE IF ParamChannel(id) # "none" /\ ParamChannel(id) \notin caps[w.model]
       THEN Tag(w, id)
  ELSE [w EXCEPT !.params[id] = v]

\* destroy: detach and free the model.
Destroy(w) == [w EXCEPT !.model = "none", !.stage = << >>, !.params = DefaultParams]

\* ------------------------------------------------- Reactive Puppet Controller
GetHandFromPath(path) ==
  IF path.group = "left-keys" THEN "left"
  ELSE IF path.group = "right-keys" THEN "right"
  ELSE "none"

\* variant: a working monitor keeps the hands down whatever is pressed
HandControl_IgnoresKeys(w) ==
  LET keys == w.pressedKeys
      hasHand(c) == \E k \in DOMAIN keys : GetHandFromPath(keys[k]) = c
      hasAnyKey == DOMAIN keys # {}
      isMonitorWorking == w.currentMode = "spying" /\ w.currentState = "working"
      down(c) == w.stickActive[c] \/ hasHand(c) \/ isMonitorWorking
      w1 == SetParameterValue(w, HandParams.left, down("left"))
      w2 == SetParameterValue(w1, HandParams.right, down("right"))
  IN  IF hasAnyKey
      THEN SetParameterValue(SetParameterValue(w2, StickParams.left.show, FALSE),
                             StickParams.right.show, FALSE)
      ELSE w2

HandControl(w) ==
  LET keys == w.pressedKeys
      hasHand(c) == \E k \in DOMAIN keys : GetHandFromPath(keys[k]) = c
      hasAnyKey == DOMAIN keys # {}
      isMonitorWorking == w.currentMode = "spying" /\ w.currentState = "working"
      down(c) == w.stickActive[c] \/ hasHand(c) \/ (isMonitorWorking /\ ~hasAnyKey)
      w1 == SetParameterValue(w, HandParams.left, down("left"))
      w2 == SetParameterValue(w1, HandParams.right, down("right"))
  IN  IF hasAnyKey
      THEN SetParameterValue(SetParameterValue(w2, StickParams.left.show, FALSE),
                             StickParams.right.show, FALSE)
      ELSE w2

\* The watcher job runs when one of its four sources changed since w0.
HandInputs(w) == <<w.pressedKeys, w.stickActive, w.currentMode, w.currentState>>
RunWatch(w0, w) ==
  IF HandInputs(w0) # HandInputs(w) \/ w.dirty
  THEN [HandControl(w) EXCEPT !.dirty = FALSE]
  ELSE w

\* ------------------------------------------------- Autonomous Action Scheduler
\* variant: the gate reads the mode and not the state
Gate_ModeOnly(w) == w.currentMode = "spying"

Gate(w) == w.currentMode = "spying" /\ w.currentState = "working"

StopAgentMouseDrag(w) == [w EXCEPT !.agentMouseRaf = Cancel(@)]

AvailableKeys(w) == {k \in TestKeys : PlainKey(k) \in DOMAIN w.supportKeys}
KeyDraws(w) == IF AvailableKeys(w) = {} THEN {"-"} ELSE AvailableKeys(w)

\* pressedKeys.value[key] = path
PressKey(w, k, path) ==
  [w EXCEPT !.pressedKeys = (k :> path) @@ @, !.ownHold = @ \ {k},
            !.flights = [i \in DOMAIN @ |-> [@[i] EXCEPT !.pre = @ \ {k}]]]

TriggerRandomKey(w, k) ==
  IF ~Gate(w) THEN w
  ELSE IF k \notin AvailableKeys(w) THEN w
  ELSE LET w1 == PressKey(w, k, w.supportKeys[PlainKey(k)])
       IN  Tag([w1 EXCEPT !.holds[k] = @ + 1,
                          !.ownHold = IF "pulses" \in scope THEN @ \cup {k} ELSE @],
               "agentEffect")

\* Math.max(0, Math.min(1, r)) on quarters
Clamp(r) == IF r < 0 THEN 0 ELSE IF r > 4 THEN 4 ELSE r
\* applyMouseRatio: the clamped ratio is kept and written to the pointer
\* parameters
ApplyMouseRatio(w, r) ==
  Tag([w EXCEPT !.currentMouseRatio = <<Clamp(r[1]), Clamp(r[2])>>], "agentEffect")
\* easeInOut(n / WalkSteps) as a fraction of EaseDen
EaseDen == 2 * WalkSteps * WalkSteps
EaseInOut(n) ==
  IF 2 * n < WalkSteps THEN 4 * n * n
  ELSE EaseDen - (2 * WalkSteps - 2 * n) * (2 * WalkSteps - 2 * n)
\* from + (target - from) * k
WalkRatio(from, target, n) ==
  [i \in 1..2 |-> from[i] + ((target[i] - from[i]) * EaseInOut(n)) \div EaseDen]
\* Math.random() for both axes, a value in [0, 1)
WalkTargets == {<<0, 3>>, <<3, 0>>}
\* const from = { ...currentMouseRatio.value }; the target is drawn when the
\* first frame of the walk needs it
BeginWalk(w) ==
  IF "pointer" \in scope
  THEN [w EXCEPT !.walk = [from |-> w.currentMouseRatio, target |-> << >>]]
  ELSE w

\* variant: a new walk leaves the frame of the walk in flight pending
TriggerRandomMouseMove_NoCancel(w) ==
  IF ~Gate(w) THEN w
  ELSE [BeginWalk(w) EXCEPT !.agentMouseRaf = Schedule(@)]

TriggerRandomMouseMove(w) ==
  IF ~Gate(w) THEN w
  ELSE LET w1 == StopAgentMouseDrag(BeginWalk(w))
       IN  [w1 EXCEPT !.agentMouseRaf = Schedule(@)]

ScheduleNextKeyAction(w, k) ==
  IF ~Gate(w) THEN [w EXCEPT !.agentActionTimer = Cancel(@)]
  ELSE [TriggerRandomKey(w, k) EXCEPT !.agentActionTimer = Schedule(@)]

ScheduleNextMouseMove(w) ==
  IF ~Gate(w) THEN [w EXCEPT !.agentMouseTimer = Cancel(@)]
  ELSE [TriggerRandomMouseMove(w) EXCEPT !.agentMouseTimer = Schedule(@)]

StartAgentAutoActions(w, k) ==
  Tag(ScheduleNextMouseMove(ScheduleNextKeyAction(w, k)), "startAgent")

\* variant: stop also empties pressedKeys
StopAgentActions_ClearsKeys(w) ==
  LET w1 == [w EXCEPT !.agentActionTimer = MarkStale(Cancel(@)),
                      !.agentMouseTimer = MarkStale(Cancel(@))]
  IN  [StopAgentMouseDrag(w1) EXCEPT !.pressedKeys = << >>, !.ownHold = {}]

\* variant: stop also clears the pending hold-release timers
StopAgentActions_ClearsHolds(w) ==
  LET w1 == [w EXCEPT !.agentActionTimer = MarkStale(Cancel(@)),
                      !.agentMouseTimer = MarkStale(Cancel(@)),
                      !.holds = [k \in TestKeys |-> 0]]
  IN  StopAgentMouseDrag(w1)

StopAgentActions(w) ==
  LET w1 == [w EXCEPT !.agentActionTimer = MarkStale(Cancel(@)),
                      !.agentMouseTimer = MarkStale(Cancel(@))]
  IN  StopAgentMouseDrag(w1)

\* ------------------------------------------------- Idle Gesture Scheduler
Abs(x) == IF x < 0 THEN -x ELSE x
Sgn(x) == IF x < 0 THEN -1 ELSE IF x > 0 THEN 1 ELSE 0
\* stick coordinates are kept in units of 1/StickUnit, so the dead zone of
\* 0.1 ends at one unit and full deflection is StickUnit units
StickUnit == DeadzoneDen
\* start + (end - start) * 0.1, truncated to the unit grid; a step that
\* truncates to nothing still moves one unit, so the approach ends
Lerp(start, end) ==
  LET d == end - start
      step == Abs(d) \div LerpDen
  IN  IF d = 0 THEN start ELSE start + Sgn(d) * (IF step = 0 THEN 1 ELSE step)
\* Math.abs(x) > 0.1 || Math.abs(y) > 0.1
Deadzone(p) == Abs(p[1]) * DeadzoneDen > StickUnit \/ Abs(p[2]) * DeadzoneDen > StickUnit
\* (Math.random() - 0.5) * 2 for both axes, a value in [-1, 1)
StickTargets == {<<0, 0>>, <<-StickReach, -StickReach>>}

UpdateSticks(w) ==
  IF w.currentMode # "slacking" THEN [w EXCEPT !.spyStickRaf = Cancel(@)]
  ELSE
    LET pos == [c \in Channels |->
                  IF c \in w.stickHas
                  THEN <<Lerp(w.stickPos[c][1], w.stickTarget[c][1]),
                         Lerp(w.stickPos[c][2], w.stickTarget[c][2])>>
                  ELSE w.stickPos[c]]
        act == [c \in Channels |->
                  IF c \in w.stickHas THEN Deadzone(pos[c]) ELSE w.stickActive[c]]
        chan(v, c) ==
          IF c \notin w.stickHas THEN v
          ELSE SetParameterValue(SetParameterValue(v, StickParams[c].show, act[c]),
                                 StickParams[c].down, act[c])
        w1 == [w EXCEPT !.stickPos = pos, !.stickActive = act]
        w2 == chan(chan(w1, "left"), "right")
    IN  Tag([w2 EXCEPT !.spyStickRaf = Schedule(@)], "stickEffect")

RandomizeStickTarget(w, tg) ==
  IF w.currentMode # "slacking" THEN [w EXCEPT !.spyStickTimer = Cancel(@)]
  ELSE [w EXCEPT !.stickTarget = [c \in Channels |-> IF c \in w.stickHas THEN tg[c] ELSE @[c]],
                 !.spyStickTimer = Schedule(@)]

\* variant: start does not cancel the handles it tracks
StartSpyStickControl_NoCancel(w, tg) ==
  LET has == {c \in Channels : HasStickRange(w, c)}
      w0 == IF Pending(w.spyStickRaf) > 0 THEN Tag(w, "restartStick") ELSE w
  IN  IF has = {} THEN w0
      ELSE RandomizeStickTarget(UpdateSticks([w0 EXCEPT !.stickHas = has]), tg)

StartSpyStickControl(w, tg) ==
  LET has == {c \in Channels : HasStickRange(w, c)}
      w0 == IF Pending(w.spyStickRaf) > 0 THEN Tag(w, "restartStick") ELSE w
  IN  IF has = {} THEN w0
      ELSE LET w1 == [w0 EXCEPT !.spyStickTimer = Cancel(@), !.spyStickRaf = Cancel(@),
                                !.stickHas = has]
           IN  RandomizeStickTarget(UpdateSticks(w1), tg)

\* variant: stop cancels the handles and resets nothing
StopSpyStickControl_NoReset(w) ==
  Tag([w EXCEPT !.spyStickTimer = Cancel(@), !.spyStickRaf = Cancel(@)], "stopStick")

StopSpyStickControl(w) ==
  LET w1 == [w EXCEPT !.spyStickTimer = Cancel(@), !.spyStickRaf = Cancel(@)]
      w2 == SetParameterValue(w1, StickParams.left.show, FALSE)
      w3 == SetParameterValue(w2, StickParams.right.show, FALSE)
      w4 == SetParameterValue(w3, StickParams.left.down, FALSE)
      w5 == SetParameterValue(w4, StickParams.right.down, FALSE)
  IN  Tag([w5 EXCEPT !.stickActive = [c \in Channels |-> FALSE], !.dirty = TRUE], "stopStick")

\* ------------------------------------------------- Resource loader (useResources)
EmptyMap == [x \in {} |-> x]
NoPath == KeyPath("", "", "")
\* for (group of groups) for (key of commonKeys): the probes in order
Probes ==
  [i \in 1..(Len(Groups) * Len(CommonKeys)) |->
     [group |-> Groups[((i - 1) \div Len(CommonKeys)) + 1],
      key |-> CommonKeys[((i - 1) % Len(CommonKeys)) + 1]]]
BackgroundExists(root) == root \in {"gamepad", "standard"}

\* loadResources up to its first await: clear, then fetch the background
LoadResourcesBegin(w, i) ==
  [w EXCEPT !.supportKeys = EmptyMap, !.backgroundImagePath = "none",
            !.flights[i].pc = "bg",
            !.flights[i].fetch = KeyPath(ResourcesPath(w.currentMode), "", "background")]

\* issue the fetch of probe n, the path built from the resource root of now
IssueProbe(w, i, n) ==
  [w EXCEPT !.flights[i].pc = "probe", !.flights[i].idx = n,
            !.flights[i].fetch = KeyPath(ResourcesPath(w.currentMode), Probes[n].group,
                                         Probes[n].key)]

\* the background response arrived
BackgroundLoaded(w, i) ==
  IF BackgroundExists(w.flights[i].fetch.root)
  THEN [w EXCEPT !.backgroundImagePath = ResourcesPath(w.currentMode)]
  ELSE w

\* the response of a key probe arrived
ProbeLoaded(w, i) ==
  LET f == w.flights[i].fetch
      full == FullKey(f.key, f.group)
      plain == PlainKey(f.key)
      s1 == (full :> f) @@ w.supportKeys
      s2 == IF plain \notin DOMAIN s1 \/ f.group = "left-keys" THEN (plain :> f) @@ s1 ELSE s1
  IN  IF FileExists(f.root, f.group, f.key) THEN [w EXCEPT !.supportKeys = s2] ELSE w

\* ------------------------------------------------- Mode/State Store (useModeState)
RemoveAt(q, i) == [j \in 1..(Len(q) - 1) |-> IF j < i THEN q[j] ELSE q[j + 1]]
\* of the entries a flip found in pressedKeys, those never deleted or replaced
StillPressed(q, keys) == [i \in DOMAIN q |-> [q[i] EXCEPT !.pre = @ \cap DOMAIN keys]]

\* playMotion answers a promise when a model is attached and undefined when
\* none is.
\* triggerLightning: the motion, or without a model the fallback, whose
\* ranges are (0,0) so that only the 500 ms revert is scheduled.  The revert
\* writes part opacities, which no other step reads.
TriggerLightning(w) ==
  IF w.model # "none" \/ "reverts" \notin scope THEN Tag(w, "lightning")
  ELSE Tag([w EXCEPT !.lightningReverts = @ + 1], "lightning")

\* updateModeBehavior up to its first await (requestAnimationFrame)
UpdateModeBegin(w, flip) ==
  LET w1 == StopSpyStickControl(StopAgentActions(w))
      w2 == Destroy(w1)
  IN  [w2 EXCEPT !.flights = Append(@, [pc |-> "raf", idx |-> 0, flip |-> flip,
                                        loadPath |-> "none", fetch |-> NoPath,
                                        pre |-> DOMAIN w.pressedKeys,
                                        had |-> DOMAIN w.pressedKeys # {}])]

\* after the frame: clear keys and resources, call handleLoad (live2d.load
\* destroys the attached model, then awaits the fetch)
\* variant: the reload keeps pressedKeys
UpdateModeClear_KeepsKeys(w, i) ==
  LET w1 == [w EXCEPT !.supportKeys = EmptyMap, !.backgroundImagePath = "none"]
      w2 == Destroy(w1)
  IN  [w2 EXCEPT !.flights[i].pc = "load", !.flights[i].loadPath = ModelPath(w.currentMode)]

UpdateModeClear(w, i) ==
  LET w1 == [w EXCEPT !.pressedKeys = EmptyMap, !.ownHold = {}, !.dirty = TRUE,
                      !.supportKeys = EmptyMap, !.backgroundImagePath = "none"]
      w2 == Destroy(w1)
  IN  [w2 EXCEPT !.flights[i].pc = "load", !.flights[i].loadPath = ModelPath(w.currentMode)]

\* variant: a failed load puts the store back into the mode it left
ModelLoaded_RevertsMode(w, i, ok) ==
  IF ok THEN [w EXCEPT !.model = w.flights[i].loadPath,
                       !.stage = << w.flights[i].loadPath >>,
                       !.params = DefaultParams]
  ELSE Tag([w EXCEPT !.currentMode = IF @ = "spying" THEN "slacking" ELSE "spying"],
           "loadFailed")

\* variant: the created model is added to the stage as it is found
ModelLoaded_NoSecondClear(w, i, ok) ==
  IF ok THEN [w EXCEPT !.model = w.flights[i].loadPath,
                       !.stage = Append(@, w.flights[i].loadPath),
                       !.params = DefaultParams]
  ELSE Tag(w, "loadFailed")

\* live2d.load resolved (ok) or threw (caught and logged in handleLoad): the
\* created model replaces this.model, the stage is cleared once more and the
\* model added
ModelLoaded(w, i, ok) ==
  IF ok THEN [w EXCEPT !.model = w.flights[i].loadPath,
                       !.stage = << w.flights[i].loadPath >>,
                       !.params = DefaultParams]
  ELSE Tag(w, "loadFailed")

\* variant: the tail does not start the gesture scheduler
UpdateModeEnd_NoStickStart(w, i, k, tg) ==
  LET f == w.flights[i]
      wr == [w EXCEPT !.flights = RemoveAt(@, i)]
      w0 == IF f.flip THEN Tag(wr, "flipSettled") ELSE wr
  IN  IF w0.currentMode = "slacking"
      THEN SetParameterValue(SetParameterValue(w0, StickParams.left.show, FALSE),
                             StickParams.right.show, FALSE)
      ELSE IF w0.currentState = "working" THEN StartAgentAutoActions(w0, k)
      ELSE w0

\* the tail of updateModeBehavior: start the scheduler of the mode
UpdateModeEnd(w, i, k, tg) ==
  LET f == w.flights[i]
      wr == [w EXCEPT !.flights = RemoveAt(@, i)]
      wh == IF f.flip /\ f.had THEN Tag(wr, "hadKeys") ELSE wr
      ws == IF f.flip /\ f.pre \cap DOMAIN w.pressedKeys # {} THEN Tag(wh, "staleKey") ELSE wh
      w0 == IF f.flip THEN Tag(ws, "flipSettled") ELSE ws
  IN  IF w0.currentMode = "slacking"
      THEN LET w1 == SetParameterValue(w0, StickParams.left.show, FALSE)
               w2 == SetParameterValue(w1, StickParams.right.show, FALSE)
           IN  StartSpyStickControl(w2, tg)
      ELSE IF w0.currentState = "working" THEN StartAgentAutoActions(w0, k)
      ELSE w0

\* variant: the pulse is played in either mode
UpdateStateBehavior_AnyMode(w, k, tg) ==
  LET w1 == StopAgentActions(w)
      w2 == IF w1.currentMode # "slacking" THEN StopSpyStickControl(w1) ELSE w1
      w3 == IF w2.currentMode = "slacking" THEN StartSpyStickControl(w2, tg) ELSE w2
      w4 == IF w3.currentMode = "spying" /\ w3.currentState = "working"
            THEN StartAgentAutoActions(w3, k) ELSE w3
  IN  IF w4.currentState = "confirming" THEN TriggerLightning(w4) ELSE w4

\* updateStateBehavior, the job of watch(currentState)
UpdateStateBehavior(w, k, tg) ==
  LET w1 == StopAgentActions(w)
      w2 == IF w1.currentMode # "slacking" THEN StopSpyStickControl(w1) ELSE w1
      w3 == IF w2.currentMode = "slacking" THEN StartSpyStickControl(w2, tg) ELSE w2
      w4 == IF w3.currentMode = "spying" /\ w3.currentState = "working"
            THEN StartAgentAutoActions(w3, k) ELSE w3
  IN  IF w4.currentMode = "spying" /\ w4.currentState = "confirming"
      THEN TriggerLightning(w4) ELSE w4

\* currentMode.value = m, then the watcher jobs of the same flush: the puppet
\* controller first (created first), then watch(currentMode)
AssignMode(w, m) ==
  IF w.currentMode = m THEN Tag(w, "sameValue")
  ELSE LET w1 == [w EXCEPT !.currentMode = m]
           w2 == RunWatch(w, w1)
           w3 == UpdateModeBegin(w2, TRUE)
       IN  RunWatch(w2, w3)

\* variant: the assignment runs its watcher job whatever the old value
AssignState_Unguarded(w, s, k, tg) ==
  LET w1 == [w EXCEPT !.currentState = s]
      w2 == RunWatch(w, w1)
      w3 == UpdateStateBehavior(w2, k, tg)
  IN  RunWatch(w2, w3)

AssignState(w, s, k, tg) ==
  IF w.currentState = s THEN Tag(w, "sameValue")
  ELSE LET w1 == [w EXCEPT !.currentState = s]
           w2 == RunWatch(w, w1)
           w3 == UpdateStateBehavior(w2, k, tg)
       IN  RunWatch(w2, w3)

NextState(s) ==
  LET i == CHOOSE j \in 1..Len(States) : States[j] = s
  IN  States[(i % Len(States)) + 1]
OtherMode(m) == IF m = "slacking" THEN "spying" ELSE "slacking"

\* ------------------------------------------------- Status Client (useBackend)
\* Strings the program takes apart are sequences of tokens; the prefix
\* 'Allow? ' (seven characters) is one token.
NoText == << >>
Absent == "undefined"
NoPayload == [type |-> "undefined"]
JsonNull == [type |-> "null"]
AllowPrefix == "Allow? "

\* hook_payload with its data object flattened into it
Payload(action, caption, always, jump) ==
  [type |-> "object", action |-> action, caption |-> caption,
   can_always |-> always, jump_only |-> jump]
Body(mode, state, hookAction, hookType, payload) ==
  [type |-> "object", mode |-> mode, state |-> state, hook_action |-> hookAction,
   hook_type |-> hookType, hook_payload |-> payload]

\* response bodies of GET /api/status and POST /api/mode/toggle
PermissionPoll ==
  Body("spying", "confirming", Absent, Absent,
       Payload("ask_permission", <<AllowPrefix, "read file">>, "true", Absent))
AskPermissionPoll ==
  Body("spying", "confirming", "ask_permission", Absent,
       Payload("ask_permission", <<AllowPrefix, "read file">>, "true", Absent))
JumpPermissionPoll ==
  Body("spying", "confirming", "ask_permission", Absent,
       Payload("ask_permission", <<"write file">>, "true", "true"))
InputPoll ==
  Body("spying", "confirming", "ask_user", Absent,
       Payload("ask_user", <<"name?">>, Absent, Absent))
GenericPoll ==
  Body("spying", "confirming", Absent, "ask_user",
       Payload("ask_user", <<"READY.">>, Absent, Absent))
WorkingPoll == Body("spying", "working", Absent, Absent, NoPayload)
NeedPoll ==
  Body("spying", "resting", Absent, Absent,
       Payload("notification_need", NoText, Absent, Absent))
EmptyPoll == Body(Absent, Absent, Absent, Absent, NoPayload)
\* response bodies of POST /api/hook-response
Delivered == [type |-> "object", success |-> "true"]
Refused == [type |-> "object", success |-> "false"]
Bodies ==
  {PermissionPoll, AskPermissionPoll, JumpPermissionPoll, InputPoll, GenericPoll, WorkingPoll,
   NeedPoll, EmptyPoll}

\* how a request ends: fetch rejects, the status is not 2xx, response.json()
\* rejects, or a body was parsed
Outcomes ==
  {[net |-> "rejected"], [net |-> "status"], [net |-> "unparsable"]}
    \cup {[net |-> "ok", data |-> d] : d \in Bodies \cup {JsonNull}}
Failures == {o \in Outcomes : o.net # "ok"}
HookOutcomes == Failures \cup {[net |-> "ok", data |-> d] : d \in {Delivered, Refused}}

\* variant: a rejected fetch or json() leaves apiRequest as an exception
ApiRequest_Rethrows(o) ==
  [threw |-> o.net \in {"rejected", "unparsable"},
   data |-> IF o.net = "ok" THEN o.data ELSE JsonNull]

\* apiRequest: the whole body is inside try/catch
ApiRequest(o) ==
  [threw |-> FALSE, data |-> IF o.net = "ok" THEN o.data ELSE JsonNull]

Truthy(d) == d.type # "null"
\* v || d on strings
Or(v, d) == IF v = Absent THEN d ELSE v
\* v || false on booleans of the body
OrFalse(v) == v = "true"
\* caption || d
OrText(c, d) == IF c = NoText THEN d ELSE c

InitialStatus ==
  [mode |-> "slacking", state |-> "resting", hook_payload |-> NoPayload,
   hook_type |-> Absent, hook_action |-> Absent]

\* the record fetchStatus builds from a parsed body
Normalize(data) ==
  [mode |-> Or(data.mode, "slacking"), state |-> Or(data.state, "resting"),
   hook_payload |-> data.hook_payload, hook_type |-> data.hook_type,
   hook_action |-> data.hook_action]

\* variant: a poll without data puts the record back to its defaults
FetchStatus_ResetsOnNull(w, o) ==
  LET r == ApiRequest(o)
  IN  IF r.threw THEN Tag([w EXCEPT !.escaped = TRUE], "threw")
      ELSE IF Truthy(r.data)
      THEN Tag([w EXCEPT !.currentStatus = Normalize(r.data)], "statusReplaced")
      ELSE Tag([w EXCEPT !.currentStatus = InitialStatus], "fetchNull")

\* fetchStatus after its apiRequest settled with outcome o
FetchStatus(w, o) ==
  LET r == ApiRequest(o)
  IN  IF r.threw THEN Tag([w EXCEPT !.escaped = TRUE], "threw")
      ELSE IF Truthy(r.data)
      THEN Tag([w EXCEPT !.currentStatus = Normalize(r.data)], "statusReplaced")
      ELSE Tag(w, "fetchNull")

\* toggleMode after its apiRequest settled: two fields of the record assigned
ToggleModeDone(w, o) ==
  LET r == ApiRequest(o)
  IN  IF r.threw THEN Tag([w EXCEPT !.escaped = TRUE], "threw")
      ELSE IF Truthy(r.data)
      THEN Tag([w EXCEPT !.currentStatus.mode = Or(r.data.mode, "slacking")], "statusMerged")
      ELSE Tag(w, "toggleNull")

\* sendHookResponse / activateTerminal after their apiRequest settled
\* sendHookResponse after its await: return !!success
PostDone(w, o) ==
  LET r == ApiRequest(o)
  IN  IF r.threw THEN Tag([w EXCEPT !.escaped = TRUE], "threw")
      ELSE IF Truthy(r.data) THEN Tag(w, "postOk") ELSE Tag(w, "postFailed")

Request(kind) ==
  [kind |-> kind, choice |-> "-", input |-> NoText, then |-> "-", late |-> FALSE]
IssueRequest(w, r) == [w EXCEPT !.requests = Append(@, r)]
\* sendHookResponse(choice, userInput) up to its await; then names what the
\* caller does after it
SendHookResponse(w, choice, input, then) ==
  Tag(IssueRequest(w, [kind |-> "hook", choice |-> choice, input |-> input, then |-> then,
                      late |-> FALSE]),
      "hookSent")

\* ------------------------------------------------- Decision Prompt (App.vue)
GenericPrompts ==
  {"Claude Code needs your attention", "Claude needs your attention", "Input required",
   "Ready."}
\* the three fixed captions of the watcher, by their meaning
DefaultPermissionCaption == <<"permission needed">>
DefaultInputCaption == <<"please enter text">>
UnknownCaption == <<"confirmation needed">>
\* toLowerCase on the tokens that occur
ToLowerCase(t) ==
  CASE t \in {"Ready.", "READY."} -> "ready."
    [] t = "Input required" -> "input required"
    [] t = "Claude needs your attention" -> "claude needs your attention"
    [] t = "Claude Code needs your attention" -> "claude code needs your attention"
    [] t = AllowPrefix -> "allow? "
    [] OTHER -> t
Includes(c, p) == \E i \in DOMAIN c : ToLowerCase(c[i]) = ToLowerCase(p)
\* trim: whitespace tokens at both ends removed
Blank == " "
RECURSIVE TrimLeft(_)
TrimLeft(c) == IF c # NoText /\ Head(c) = Blank THEN TrimLeft(Tail(c)) ELSE c
RECURSIVE TrimRight(_)
TrimRight(c) ==
  IF c # NoText /\ c[Len(c)] = Blank THEN TrimRight(SubSeq(c, 1, Len(c) - 1)) ELSE c
Trim(c) == TrimRight(TrimLeft(c))

ClearDecision(w) ==
  [w EXCEPT !.confirmingContext = NoText, !.confirmingType = "null", !.canAlways = FALSE,
            !.needsJumpOnly = FALSE, !.jumpOnly = FALSE]

\* watch(() => currentStatus.value.mode)
ModeWatch(w0, w) ==
  IF w.currentStatus.mode # w0.currentStatus.mode /\ w.currentMode # w.currentStatus.mode
  THEN AssignMode(w, w.currentStatus.mode)
  ELSE w

\* watch(() => currentStatus.value.state): its setState
StateWatchStore(w0, w, k, tg) ==
  IF w.currentStatus.state # w0.currentStatus.state /\ w.currentState # w.currentStatus.state
  THEN AssignState(w, w.currentStatus.state, k, tg)
  ELSE w

\* watch(() => currentStatus.value.state): after its setState
StateWatchDecision(w0, w) ==
  LET st == w.currentStatus
      payload == st.hook_payload
      action == Or(st.hook_action, st.hook_type)
  IN  IF st.state = w0.currentStatus.state THEN w
      ELSE IF /\ st.state = "resting" /\ w.currentMode = "spying" /\ payload.type = "object"
              /\ payload.action = "notification_need"
      THEN Tag(w, "toast")
      ELSE IF st.state = "confirming" /\ payload.type = "object"
      THEN IF action = "ask_permission"
           THEN LET caption == OrText(payload.caption, DefaultPermissionCaption)
                IN  [w EXCEPT !.confirmingType = "ask_permission",
                              !.confirmingContext =
                                 IF Head(caption) = AllowPrefix THEN Tail(caption) ELSE caption,
                              !.canAlways = OrFalse(payload.can_always),
                              !.jumpOnly = OrFalse(payload.jump_only)]
           ELSE IF action = "ask_user"
           THEN LET caption == OrText(payload.caption, DefaultInputCaption)
                IN  [w EXCEPT !.confirmingType = "ask_user",
                              !.confirmingContext = caption,
                              !.needsJumpOnly = \E p \in GenericPrompts : Includes(caption, p)]
           ELSE [w EXCEPT !.confirmingType = "null", !.confirmingContext = UnknownCaption]
      ELSE IF st.state # "confirming" THEN ClearDecision(w)
      ELSE w

\* the worlds (one) after the watcher jobs that the assignment leading from w0
\* to w1 queues have run, in creation order; each job works on the result of
\* the one before
Watched(w0, w1, k, tg) ==
  {StateWatchDecision(w0, s) :
     s \in {StateWatchStore(w0, m, k, tg) : m \in {ModeWatch(w0, a) : a \in {w1}}}}

\* ------------------------------------------------- steps
Bounded(w) ==
  /\ Pending(w.agentActionTimer) <= MaxChains
  /\ Pending(w.agentMouseTimer) <= MaxChains
  /\ Pending(w.agentMouseRaf) <= MaxChains
  /\ Pending(w.spyStickTimer) <= MaxChains
  /\ Pending(w.spyStickRaf) <= MaxChains
  /\ HoldCount(w.holds) <= MaxHolds + (IF "pulses" \in scope THEN 1 ELSE 0)
  /\ Len(w.flights) <= MaxFlights + (IF "overlap" \in scope THEN 1 ELSE 0)
  /\ Len(w.requests) <= MaxRequests
  /\ w.lightningReverts <= MaxPulses

Commit(w, op) ==
  /\ Bounded(w)
  /\ currentMode' = w.currentMode
  /\ currentState' = w.currentState
  /\ model' = w.model
  /\ stage' = w.stage
  /\ params' = w.params
  /\ stickActive' = w.stickActive
  /\ stickPos' = w.stickPos
  /\ stickTarget' = w.stickTarget
  /\ stickHas' = w.stickHas
  /\ spyStickTimer' = w.spyStickTimer
  /\ spyStickRaf' = w.spyStickRaf
  /\ agentActionTimer' = w.agentActionTimer
  /\ agentMouseTimer' = w.agentMouseTimer
  /\ agentMouseRaf' = w.agentMouseRaf
  /\ supportKeys' = w.supportKeys
  /\ backgroundImagePath' = w.backgroundImagePath
  /\ pressedKeys' = w.pressedKeys
  /\ holds' = w.holds
  /\ ownHold' = w.ownHold
  /\ currentMouseRatio' = w.currentMouseRatio
  /\ walk' = w.walk
  /\ flights' = StillPressed(w.flights, w.pressedKeys)
  /\ currentStatus' = w.currentStatus
  /\ requests' = w.requests
  /\ polling' = w.polling
  /\ confirmingType' = w.confirmingType
  /\ confirmingContext' = w.confirmingContext
  /\ canAlways' = w.canAlways
  /\ needsJumpOnly' = w.needsJumpOnly
  /\ jumpOnly' = w.jumpOnly
  /\ userInput' = w.userInput
  /\ escaped' = w.escaped
  /\ lightningReverts' = w.lightningReverts
  /\ last' = w.tags
  /\ UNCHANGED <<caps, scope>>

\* the draws that matter: a target for each channel the model declares
TargetsFor(w) ==
  {tg \in [Channels -> StickTargets] :
     \A c \in Channels : ~HasStickRange(w, c) /\ c \notin w.stickHas => tg[c] = <<0, 0>>}
Targets == TargetsFor(Cur)

Init ==
  /\ currentMode = "slacking"
  /\ currentState = "resting"
  /\ caps \in [gamepad : GamepadCaps, standard : StandardCaps]
  /\ scope \in SUBSET {"reverts", "overlap", "pulses", "pointer", "order"}
  /\ model = "none"
  /\ stage = << >>
  /\ params = DefaultParams
  /\ stickActive = [c \in Channels |-> FALSE]
  /\ stickPos = [c \in Channels |-> <<0, 0>>]
  /\ stickTarget = [c \in Channels |-> <<0, 0>>]
  /\ stickHas = {}
  /\ spyStickTimer = EmptySlot
  /\ spyStickRaf = EmptySlot
  /\ agentActionTimer = EmptySlot
  /\ agentMouseTimer = EmptySlot
  /\ agentMouseRaf = EmptySlot
  /\ supportKeys = EmptyMap
  /\ backgroundImagePath = "none"
  /\ pressedKeys = EmptyMap
  /\ holds = [k \in TestKeys |-> 0]
  /\ ownHold = {}
  /\ currentMouseRatio = <<2, 2>>
  /\ walk = [from |-> <<2, 2>>, target |-> << >>]
  \* onMounted has called updateModeBehavior(true), suspended at its first await
  /\ flights = <<[pc |-> "raf", idx |-> 0, flip |-> FALSE, loadPath |-> "none",
                  fetch |-> NoPath, pre |-> {}, had |-> FALSE]>>
  /\ currentStatus = InitialStatus
  /\ requests = << >>
  /\ polling = FALSE
  /\ confirmingType = "null"
  /\ confirmingContext = NoText
  /\ canAlways = FALSE
  /\ needsJumpOnly = FALSE
  /\ jumpOnly = FALSE
  /\ userInput = NoText
  /\ escaped = FALSE
  /\ lightningReverts = 0
  /\ last = {}

SetMode(m) == Commit(AssignMode(Cur, m), "setMode")

\* setState restricted to the activities other than working
SetStateIdle ==
  \E s \in StateSet \ {"working"}, tg \in Targets :
    Commit(AssignState(Cur, s, "-", tg), "setState")

ToggleMode == Commit(AssignMode(Cur, OtherMode(currentMode)), "toggleMode")

SetState(s) ==
  \E k \in KeyDraws(Cur), tg \in Targets :
    Commit(AssignState(Cur, s, k, tg), "setState")

ToggleState ==
  \E k \in KeyDraws(Cur), tg \in Targets :
    Commit(AssignState(Cur, NextState(currentState), k, tg), "toggleState")

TestKeyPress(k) ==
  LET w == IF PlainKey(k) \in DOMAIN supportKeys
           THEN PressKey(Cur, k, supportKeys[PlainKey(k)])
           ELSE Cur
  IN  Commit(RunWatch(Cur, w), "testKeyPress")

TestKeyRelease ==
  LET w == [Cur EXCEPT !.pressedKeys = EmptyMap, !.ownHold = {}, !.dirty = TRUE]
  IN  Commit(RunWatch(Cur, w), "testKeyRelease")

\* the awaited animation frame of updateModeBehavior arrived
FlightFrame(i) ==
  /\ i \in DOMAIN flights
  /\ flights[i].pc = "raf"
  /\ Commit(RunWatch(Cur, UpdateModeClear(Cur, i)), "flightFrame")

FlightLoad(i, ok) ==
  /\ i \in DOMAIN flights
  /\ flights[i].pc = "load"
  /\ Commit(RunWatch(Cur, LoadResourcesBegin(ModelLoaded(Cur, i, ok), i)), "flightLoad")

FlightBackground(i) ==
  /\ i \in DOMAIN flights
  /\ flights[i].pc = "bg"
  /\ Commit(IssueProbe(BackgroundLoaded(Cur, i), i, 1), "flightBackground")

\* onMounted after its await of updateModeBehavior: fetchStatus up to its await
OnMountedLoaded(w, flip) == IF flip THEN w ELSE IssueRequest(w, Request("mount"))

FlightProbe(i) ==
  /\ i \in DOMAIN flights
  /\ flights[i].pc = "probe"
  /\ LET w1 == ProbeLoaded(Cur, i)
         n == flights[i].idx
     IN  IF n < Len(Probes)
         THEN Commit(IssueProbe(w1, i, n + 1), "flightProbe")
         ELSE \E k \in KeyDraws(w1), tg \in Targets :
                Commit(OnMountedLoaded(RunWatch(Cur, UpdateModeEnd(w1, i, k, tg)),
                                       flights[i].flip), "flightEnd")

\* a key cadence timer fires: scheduleNextKeyAction
KeyTimer(kind) ==
  /\ kind \in Kinds(agentActionTimer)
  /\ LET w1 == [Cur EXCEPT !.agentActionTimer = Take(@, kind)]
         w2 == IF kind = "stale" /\ Gate(w1) THEN Tag(w1, "staleReschedule") ELSE w1
     IN  \E k \in KeyDraws(w1) :
           Commit(RunWatch(Cur, ScheduleNextKeyAction(w2, k)), "keyTimer")

\* a pointer cadence timer fires: scheduleNextMouseMove
MouseTimer(kind) ==
  /\ kind \in Kinds(agentMouseTimer)
  /\ LET w1 == [Cur EXCEPT !.agentMouseTimer = Take(@, kind)]
         w2 == IF kind = "stale" /\ Gate(w1) THEN Tag(w1, "staleReschedule") ELSE w1
     IN  Commit(ScheduleNextMouseMove(w2), "mouseTimer")

\* what a frame of the pointer walk does to the ratio: n frame intervals
\* have passed since the walk began, t = Math.min(1, n / WalkSteps)
\* variant: t is not capped at 1
Tick_Unclamped(w, tg, n) ==
  IF "pointer" \notin scope THEN Tag(w, "agentEffect")
  ELSE LET target == IF w.walk.target = << >> THEN tg ELSE w.walk.target
           w1 == [w EXCEPT !.walk.target = target]
           w2 == ApplyMouseRatio(w1, WalkRatio(w.walk.from, target, n))
       IN  Tag(w2, IF n < WalkSteps THEN "walkFrame" ELSE "walkEnded")

Tick(w, tg, n) ==
  IF "pointer" \notin scope THEN Tag(w, "agentEffect")
  ELSE LET target == IF w.walk.target = << >> THEN tg ELSE w.walk.target
           t == IF n > WalkSteps THEN WalkSteps ELSE n
           w1 == [w EXCEPT !.walk.target = target]
           w2 == ApplyMouseRatio(w1, WalkRatio(w.walk.from, target, t))
       IN  Tag(w2, IF n < WalkSteps THEN "walkFrame" ELSE "walkEnded")

\* the frame intervals that may have passed when a frame runs: fewer than
\* the walk takes (more frames follow), or all of them and possibly one more
Elapsed(more) ==
  IF "pointer" \notin scope THEN {0}
  ELSE IF more THEN 1..(WalkSteps - 1) ELSE {WalkSteps, WalkSteps + 1}

\* an animation frame of the pointer walk: tick
MouseFrame(kind, more) ==
  /\ kind \in Kinds(agentMouseRaf)
  /\ LET w1 == [Cur EXCEPT !.agentMouseRaf = Take(@, kind)]
     IN  IF ~Gate(w1)
         THEN Commit(IF "pointer" \in scope THEN Tag(StopAgentMouseDrag(w1), "frameCancelled")
                                            ELSE StopAgentMouseDrag(w1), "mouseFrame")
         ELSE \E tg \in (IF "pointer" \in scope THEN WalkTargets ELSE {<< >>}),
                 n \in Elapsed(more) :
                Commit([Tick(w1, tg, n) EXCEPT !.agentMouseRaf =
                                     IF more THEN Schedule(@)
                                     ELSE [@ EXCEPT !.tracked = FALSE,
                                                    !.loose = @ + (IF w1.agentMouseRaf.tracked
                                                                   THEN 1 ELSE 0)]],
                       "mouseFrame")

\* the timer that fires is the one of the pulse that put the entry (own) or
\* the one of an earlier pulse
HoldChoices(k) ==
  {own \in BOOLEAN : IF own THEN k \in ownHold
                               ELSE holds[k] > (IF k \in ownHold THEN 1 ELSE 0)}
HoldFired(w, k, own) ==
  LET w1 == [w EXCEPT !.holds[k] = @ - 1, !.ownHold = @ \ {k}]
  IN  IF "pulses" \notin scope THEN w1
      ELSE Tag(w1, IF own THEN "holdOwn" ELSE "holdOther")

\* variant: the release callback toggles the entry
HoldRelease_Toggles(k) ==
  /\ holds[k] > 0
  /\ \E own \in HoldChoices(k) :
       LET w1 == HoldFired(Cur, k, own)
           w2 == IF k \in DOMAIN pressedKeys
                 THEN Tag([w1 EXCEPT !.pressedKeys = Without(@, k)], "holdRemoved")
                 ELSE Tag(PressKey(w1, k, KeyPath("standard", "left-keys", k)), "holdIdle")
       IN  Commit(RunWatch(Cur, w2), "holdRelease")

\* a hold-release timer fires: if (pressedKeys.value[key]) delete it
HoldRelease(k) ==
  /\ holds[k] > 0
  /\ \E own \in HoldChoices(k) :
       LET w1 == HoldFired(Cur, k, own)
           w2 == IF k \in DOMAIN pressedKeys
                 THEN Tag([w1 EXCEPT !.pressedKeys = Without(@, k)], "holdRemoved")
                 ELSE Tag(w1, "holdIdle")
       IN  Commit(RunWatch(Cur, w2), "holdRelease")

\* an animation frame of the gesture loop: updateSticks
StickFrame(kind) ==
  /\ kind \in Kinds(spyStickRaf)
  /\ LET w1 == [Cur EXCEPT !.spyStickRaf = Take(@, kind)]
     IN  Commit(RunWatch(Cur, UpdateSticks(w1)), "stickFrame")

\* the retarget timer fires: randomizeStickTarget
StickTimer(kind) ==
  /\ kind \in Kinds(spyStickTimer)
  /\ LET w1 == [Cur EXCEPT !.spyStickTimer = Take(@, kind)]
     IN  \E tg \in Targets : Commit(RandomizeStickTarget(w1, tg), "stickTimer")

\* a revert timeout of triggerLightning fires: part opacities back to 0
LightningRevert ==
  /\ lightningReverts > 0
  /\ Commit(Tag([Cur EXCEPT !.lightningReverts = @ - 1], "lightningRevert"), "lightningRevert")

SlotKinds == {"tracked", "loose", "stale"}

Next ==
  \/ \E m \in Modes : SetMode(m)
  \/ ToggleMode
  \/ \E s \in StateSet : SetState(s)
  \/ ToggleState
  \/ \E k \in TestKeys : TestKeyPress(k)
  \/ TestKeyRelease
  \/ \E i \in 1..MaxFlights : FlightFrame(i)
  \/ \E i \in 1..MaxFlights, ok \in BOOLEAN : FlightLoad(i, ok)
  \/ \E i \in 1..MaxFlights : FlightBackground(i)
  \/ \E i \in 1..MaxFlights : FlightProbe(i)
  \/ \E kind \in SlotKinds : KeyTimer(kind)
  \/ \E kind \in SlotKinds : MouseTimer(kind)
  \/ \E kind \in SlotKinds, more \in BOOLEAN : MouseFrame(kind, more)
  \/ \E k \in TestKeys : HoldRelease(k)
  \/ \E kind \in SlotKinds : StickFrame(kind)
  \/ \E kind \in SlotKinds : StickTimer(kind)

Spec == Init /\ [][Next]_vars

\* Both schedulers, with model files that declare at most the left gesture
\* channel.
InitFlip == Init /\ caps.gamepad \in {{"left"}, {}} /\ scope = {}
SpecFlip == InitFlip /\ [][Next]_vars

\* The store with the Autonomous Action Scheduler alone: no model file
\* declares a gesture channel, so the Idle Gesture Scheduler never starts.
InitAgent == Init /\ caps.gamepad = {} /\ scope = {}
NextAgent ==
  \/ \E m \in Modes : SetMode(m)
  \/ \E s \in StateSet : SetState(s)
  \/ \E k \in TestKeys : TestKeyPress(k)
  \/ TestKeyRelease
  \/ \E i \in 1..MaxFlights : FlightFrame(i)
  \/ \E i \in 1..MaxFlights, ok \in BOOLEAN : FlightLoad(i, ok)
  \/ \E i \in 1..MaxFlights : FlightBackground(i)
  \/ \E i \in 1..MaxFlights : FlightProbe(i)
  \/ \E kind \in SlotKinds : KeyTimer(kind)
  \/ \E kind \in SlotKinds : MouseTimer(kind)
  \/ \E kind \in SlotKinds, more \in BOOLEAN : MouseFrame(kind, more)
  \/ \E k \in TestKeys : HoldRelease(k)
SpecAgent == InitAgent /\ [][NextAgent]_vars

\* The store with the Idle Gesture Scheduler alone: the activity is never
\* working, so the Autonomous Action Scheduler never starts.
InitStick == Init /\ caps.gamepad # {} /\ scope = {}
NextStick ==
  \/ \E m \in Modes : SetMode(m)
  \/ SetStateIdle
  \/ \E k \in TestKeys : TestKeyPress(k)
  \/ TestKeyRelease
  \/ \E i \in 1..MaxFlights : FlightFrame(i)
  \/ \E i \in 1..MaxFlights, ok \in BOOLEAN : FlightLoad(i, ok)
  \/ \E i \in 1..MaxFlights : FlightBackground(i)
  \/ \E i \in 1..MaxFlights : FlightProbe(i)
  \/ \E kind \in SlotKinds : StickFrame(kind)
  \/ \E kind \in SlotKinds : StickTimer(kind)
SpecStick == InitStick /\ [][NextStick]_vars

\* ------------------------------------------------- status client steps
Settled(i) == [Cur EXCEPT !.requests = RemoveAt(@, i)]
Awaits(i, kind) == i \in DOMAIN requests /\ requests[i].kind = kind
\* the requests made by fetchStatus
StatusKinds == {"poll", "mount", "refresh", "sync"}
\* The response of request i arrives at fetchStatus.  Where arrival order is
\* followed, a body that fetchStatus accepts makes every status request issued
\* before i late, and the arrival of a late request is noted.
MarkLate(q, i) ==
  [j \in DOMAIN q |->
     IF j < i /\ q[j].kind \in StatusKinds THEN [q[j] EXCEPT !.late = TRUE] ELSE q[j]]
Answered(i, o) ==
  LET accepted == ~ApiRequest(o).threw /\ Truthy(ApiRequest(o).data)
      w == IF "order" \in scope /\ accepted
           THEN [Cur EXCEPT !.requests = RemoveAt(MarkLate(@, i), i)]
           ELSE Settled(i)
  IN  IF requests[i].late THEN Tag(w, "lateResponse") ELSE w
Note(w, o) ==
  IF o \in Failures THEN Tag(w, "failed")
  ELSE IF o.data = Refused THEN Tag(w, "refused")
  ELSE w

\* the 1000 ms interval fires: fetchStatus up to its await
PollTick ==
  /\ polling
  /\ Commit(Tag(IssueRequest(Cur, Request("poll")), "pollIssued"), "pollTick")

\* the request of an interval poll settles
PollResolve(i, o) ==
  /\ Awaits(i, "poll")
  /\ \E k \in KeyDraws(Cur), tg \in Targets, w1 \in {Answered(i, o)} :
       \E w \in Watched(w1, FetchStatus(w1, o), k, tg) :
         Commit(Tag(Note(w, o), "pollDone"), "pollResolve")

\* if (currentStatus.value.mode) setMode(currentStatus.value.mode)
SyncMode(w) == AssignMode(w, w.currentStatus.mode)
\* if (currentStatus.value.state) setState(currentStatus.value.state)
SyncState(w, k, tg) == AssignState(w, w.currentStatus.state, k, tg)
StartPolling(w) == [w EXCEPT !.polling = TRUE]

\* the fetchStatus of onMounted settles; the rest of onMounted
MountResolve(i, o) ==
  /\ Awaits(i, "mount")
  /\ \E k \in KeyDraws(Cur), tg \in Targets, w1 \in {Answered(i, o)} :
       \E w2 \in Watched(w1, FetchStatus(w1, o), k, tg) :
         \E w3 \in {SyncMode(w2)} :
           \E w4 \in {SyncState(w3, k, tg)} :
             Commit(Note(StartPolling(w4), o), "mountResolve")

\* click on the mode button: handleToggleMonitor, toggleMonitor, toggleMode up
\* to the await of apiRequest
HandleToggleMonitor ==
  Commit(Tag(IssueRequest(Cur, Request("toggle")), "toggleIssued"), "handleToggleMonitor")

\* toggleMonitor after toggleMode: the 100 ms wait starts if it succeeded
AfterToggleMode(w) ==
  IF "statusMerged" \in w.tags THEN IssueRequest(w, Request("wait")) ELSE w

\* the request of toggleMode settles
ToggleResolve(i, o) ==
  /\ Awaits(i, "toggle")
  /\ \E k \in KeyDraws(Cur), tg \in Targets, w1 \in {Settled(i)} :
       \E w \in Watched(w1, ToggleModeDone(w1, o), k, tg) :
         Commit(Note(AfterToggleMode(w), o), "toggleResolve")

\* the 100 ms wait of toggleMonitor is over: fetchStatus up to its await
ToggleWait(i) ==
  /\ Awaits(i, "wait")
  /\ Commit(Tag(IssueRequest(Settled(i), Request("refresh")), "refreshIssued"), "toggleWait")

\* the fetchStatus of toggleMonitor settles; handleToggleMonitor calls
\* fetchStatus again
RefreshResolve(i, o) ==
  /\ Awaits(i, "refresh")
  /\ \E k \in KeyDraws(Cur), tg \in Targets, w1 \in {Answered(i, o)} :
       \E w \in Watched(w1, FetchStatus(w1, o), k, tg) :
         Commit(Note(IssueRequest(w, Request("sync")), o), "refreshResolve")

\* the fetchStatus of handleToggleMonitor settles; setMode(currentStatus.mode)
SyncResolve(i, o) ==
  /\ Awaits(i, "sync")
  /\ \E k \in KeyDraws(Cur), tg \in Targets, w1 \in {Answered(i, o)} :
       \E w2 \in Watched(w1, FetchStatus(w1, o), k, tg) :
         \E w3 \in {SyncMode(w2)} :
           Commit(Note(w3, o), "syncResolve")

\* what the confirming panel shows
PanelShown == currentMode = "spying" /\ currentState = "confirming"
Choices == {"allow", "deny", "always"}
Ignore == <<"__IGNORE__">>
Inputs == {<<Blank>>, <<Blank, "y">>}

\* the input field of the ask_user panel is edited
TypeInput(v) ==
  /\ PanelShown /\ confirmingType = "ask_user" /\ ~needsJumpOnly
  /\ userInput # v
  /\ Commit(Tag([Cur EXCEPT !.userInput = v], "typed"), "typeInput")

\* the resets of handleConfirm and handleUnknownConfirm
ResetAll(w) == ClearDecision([w EXCEPT !.userInput = NoText])
\* the resets of handleNotificationSubmit and handleNotificationCancel
ResetSome(w) ==
  [w EXCEPT !.userInput = NoText, !.confirmingContext = NoText, !.confirmingType = "null",
            !.needsJumpOnly = FALSE]

\* variant: handleConfirm without its setState('resting')
HandleConfirm_KeepsState(choice) ==
  /\ PanelShown /\ confirmingType = "ask_permission" /\ ~jumpOnly
  /\ choice = "always" => canAlways
  /\ Commit(Tag(SendHookResponse(ResetAll(Cur), choice, NoText, "log"), "confirm"),
            "handleConfirm")

HandleConfirm(choice) ==
  /\ PanelShown /\ confirmingType = "ask_permission" /\ ~jumpOnly
  /\ choice = "always" => canAlways
  /\ \E tg \in Targets :
       \E w \in {AssignState(Cur, "resting", "-", tg)} :
         Commit(Tag(SendHookResponse(ResetAll(w), choice, NoText, "log"), "confirm"),
                "handleConfirm")

\* variant: the submit handler without its test for empty input
HandleNotificationSubmit_Unchecked ==
  /\ PanelShown /\ confirmingType = "ask_user" /\ ~needsJumpOnly
  /\ \E tg \in Targets :
       \E w \in {AssignState(Cur, "resting", "-", tg)} :
         Commit(Tag(SendHookResponse(ResetSome(w), "allow", Trim(userInput), "log"), "submit"),
                "handleNotificationSubmit")

HandleNotificationSubmit ==
  /\ PanelShown /\ confirmingType = "ask_user" /\ ~needsJumpOnly
  /\ IF Trim(userInput) = NoText
     THEN Commit(Tag(Cur, "submitEmpty"), "handleNotificationSubmit")
     ELSE \E tg \in Targets :
            \E w \in {AssignState(Cur, "resting", "-", tg)} :
              Commit(Tag(SendHookResponse(ResetSome(w), "allow", Trim(userInput), "log"),
                         "submit"), "handleNotificationSubmit")

HandleNotificationCancel ==
  /\ PanelShown
  /\ \/ confirmingType = "ask_permission" /\ (jumpOnly \/ ~canAlways)
     \/ confirmingType = "ask_user"
  /\ \E tg \in Targets :
       \E w \in {AssignState(Cur, "resting", "-", tg)} :
         Commit(Tag(SendHookResponse(ResetSome(w), "__IGNORE__", Ignore, "activate"), "cancel"),
                "handleNotificationCancel")

HandleUnknownConfirm ==
  /\ PanelShown /\ confirmingType = "null"
  /\ \E tg \in Targets :
       \E w \in {AssignState(Cur, "resting", "-", tg)} :
         Commit(Tag(SendHookResponse(ResetAll(w), "__IGNORE__", Ignore, "activate"), "unknown"),
                "handleUnknownConfirm")

\* the handler goes on after its sendHookResponse
AfterHook(w, then) ==
  IF then = "activate" /\ ~w.escaped THEN IssueRequest(w, Request("activate")) ELSE w

\* the request of sendHookResponse settles; the rest of the handler
HookResolve(i, o) ==
  /\ Awaits(i, "hook")
  /\ Commit(Tag(Note(AfterHook(PostDone(Settled(i), o), requests[i].then), o), "hookDone"),
            "hookResolve")

\* activateTerminal, setWindowTopmost, executeCommand, moveWindow after their
\* apiRequest settled: the result is only logged
WindowDone(w, o) ==
  LET r == ApiRequest(o)
  IN  IF r.threw THEN Tag([w EXCEPT !.escaped = TRUE], "threw") ELSE w

\* the request of activateTerminal settles
ActivateResolve(i, o) ==
  /\ Awaits(i, "activate")
  /\ Commit(Tag(Note(WindowDone(Settled(i), o), o), "activateDone"), "activateResolve")

\* the window is dragged: handleDragMove calls moveWindow without awaiting it
HandleDragMove ==
  Commit(Tag(IssueRequest(Cur, Request("window")), "windowIssued"), "handleDragMove")

\* the request of moveWindow settles
WindowResolve(i, o) ==
  /\ Awaits(i, "window")
  /\ Commit(Tag(Note(WindowDone(Settled(i), o), o), "windowDone"), "windowResolve")

\* The Status Client over the store: the backend answers polls and toggle
\* requests, the model files load, nobody answers a prompt.
PollOutcomes ==
  Failures \cup {[net |-> "ok", data |-> d] :
                   d \in {PermissionPoll, WorkingPoll, EmptyPoll, JsonNull}}
InitPoll == Init /\ caps.gamepad = {} /\ scope = {}
NextPoll ==
  \/ \E i \in 1..MaxFlights : FlightFrame(i)
  \/ \E i \in 1..MaxFlights : FlightLoad(i, TRUE)
  \/ \E i \in 1..MaxFlights : FlightBackground(i)
  \/ \E i \in 1..MaxFlights : FlightProbe(i)
  \/ PollTick
  \/ \E i \in 1..MaxRequests, o \in PollOutcomes : PollResolve(i, o)
  \/ \E i \in 1..MaxRequests, o \in PollOutcomes : MountResolve(i, o)
  \/ HandleToggleMonitor
  \/ \E i \in 1..MaxRequests, o \in PollOutcomes : ToggleResolve(i, o)
  \/ \E i \in 1..MaxRequests : ToggleWait(i)
  \/ \E i \in 1..MaxRequests, o \in PollOutcomes : RefreshResolve(i, o)
  \/ \E i \in 1..MaxRequests, o \in PollOutcomes : SyncResolve(i, o)
SpecPoll == InitPoll /\ [][NextPoll]_vars

\* Every function of the Status Client: each request fails in one of the three
\* ways or answers with one body, a permission prompt that only offers to jump.
ClientOutcomes ==
  Failures \cup {[net |-> "ok", data |-> d] : d \in {JumpPermissionPoll, JsonNull}}
NextClient ==
  \/ \E i \in 1..MaxFlights : FlightFrame(i)
  \/ \E i \in 1..MaxFlights : FlightLoad(i, TRUE)
  \/ \E i \in 1..MaxFlights : FlightBackground(i)
  \/ \E i \in 1..MaxFlights : FlightProbe(i)
  \/ PollTick
  \/ \E i \in 1..MaxRequests, o \in ClientOutcomes : PollResolve(i, o)
  \/ \E i \in 1..MaxRequests, o \in ClientOutcomes : MountResolve(i, o)
  \/ HandleToggleMonitor
  \/ \E i \in 1..MaxRequests, o \in ClientOutcomes : ToggleResolve(i, o)
  \/ \E i \in 1..MaxRequests : ToggleWait(i)
  \/ \E i \in 1..MaxRequests, o \in ClientOutcomes : RefreshResolve(i, o)
  \/ \E i \in 1..MaxRequests, o \in ClientOutcomes : SyncResolve(i, o)
  \/ HandleNotificationCancel
  \/ \E i \in 1..MaxRequests, o \in HookOutcomes : HookResolve(i, o)
  \/ \E i \in 1..MaxRequests, o \in ClientOutcomes : ActivateResolve(i, o)
  \/ HandleDragMove
  \/ \E i \in 1..MaxRequests, o \in ClientOutcomes : WindowResolve(i, o)
SpecClient == InitPoll /\ [][NextClient]_vars

\* The decision prompt: every poll reports the spying mode and a prompt or a
\* notification, the user answers the prompts, the mode button is left alone.
PromptOutcomes ==
  {[net |-> "rejected"]}
    \cup {[net |-> "ok", data |-> d] :
            d \in {PermissionPoll, AskPermissionPoll, JumpPermissionPoll, InputPoll, NeedPoll}}
InitPrompt == Init /\ caps.gamepad = {} /\ scope = {}
NextPrompt ==
  \/ \E i \in 1..MaxFlights : FlightFrame(i)
  \/ \E i \in 1..MaxFlights : FlightLoad(i, TRUE)
  \/ \E i \in 1..MaxFlights : FlightBackground(i)
  \/ \E i \in 1..MaxFlights : FlightProbe(i)
  \/ PollTick
  \/ \E i \in 1..MaxRequests, o \in PromptOutcomes : PollResolve(i, o)
  \/ \E i \in 1..MaxRequests, o \in PromptOutcomes : MountResolve(i, o)
  \/ \E v \in Inputs : TypeInput(v)
  \/ \E c \in Choices : HandleConfirm(c)
  \/ HandleNotificationSubmit
  \/ HandleNotificationCancel
  \/ HandleUnknownConfirm
  \/ \E i \in 1..MaxRequests, o \in PromptOutcomes : HookResolve(i, o)
  \/ \E i \in 1..MaxRequests, o \in PromptOutcomes : ActivateResolve(i, o)
SpecPrompt == InitPrompt /\ [][NextPrompt]_vars

\* ------------------------------------------------- properties
AgentRunning ==
  Pending(agentActionTimer) > 0 \/ Pending(agentMouseTimer) > 0 \/ Pending(agentMouseRaf) > 0
StickRunning == Pending(spyStickTimer) > 0 \/ Pending(spyStickRaf) > 0
GestureParams == {StickParams[c].show : c \in Channels} \cup {StickParams[c].down : c \in Channels}
HasGesture == model # "none" /\ caps[model] # {}

\* C1: in every reachable state at most one of the two schedulers is running,
\* and the mode alone decides which: the Autonomous Action Scheduler only in
\* spying, the Idle Gesture Scheduler only in slacking.
C1_AtMostOneByMode ==
  /\ AgentRunning => currentMode = "spying"
  /\ StickRunning => currentMode = "slacking"
  /\ ~(AgentRunning /\ StickRunning)

C3_StartIdempotent ==
  "startAgent" \in last => Pending(agentActionTimer) = 1 /\ Pending(agentMouseTimer) = 1

\* C4: no cadence timer that was pending when stopAgentActions returned fires
\* later and reschedules itself.
C4_NoRescheduleAfterStop == "staleReschedule" \notin last

\* C5: no key-pulse, pointer-walk or gesture-frame body takes effect while the
\* reload of a mode change is still in progress.
C5_NoBodyDuringReload ==
  last \cap {"agentEffect", "stickEffect"} # {} => \A i \in DOMAIN flights : ~flights[i].flip

\* C6: startSpyStickControl called while the scheduler is already running
\* leaves exactly one frame loop and exactly one pending retarget timer.
C6_OneLoopAfterRestart ==
  "restartStick" \in last => Pending(spyStickRaf) = 1 /\ Pending(spyStickTimer) = 1
C6_Witness == "restartStick" \in last /\ currentState = "confirming"

\* C7: a step in which the Autonomous Action Scheduler inserts a key or writes
\* the pointer is a step at which mode = spying and state = working.
C7_EffectOnlyWhenGated ==
  "agentEffect" \in last => currentMode = "spying" /\ currentState = "working"
C7_Witness == "agentEffect" \in last /\ DOMAIN pressedKeys # {} /\ agentActionTimer.stale > 0

\* C8: when an effective mode flip settles, no entry that was in PressedKeySet
\* before the flip is still present.
C8_NoStaleKeyAfterFlip == "staleKey" \notin last
C8_Witness == {"flipSettled", "hadKeys"} \subseteq last /\ DOMAIN pressedKeys # {}

\* C9: when an effective mode flip settles, the four gesture visibility and
\* pressed parameters are false.
C9_GestureParamsFalseAfterFlip ==
  "flipSettled" \in last => \A id \in GestureParams : ~params[id]

\* C10: stopSpyStickControl leaves no frame and no retarget timer pending, and
\* while the scheduler is stopped the four gesture visibility and pressed
\* parameters and both active flags are false.
C10_StopLeavesNeutral ==
  /\ "stopStick" \in last => ~StickRunning
  /\ ~StickRunning => /\ \A id \in GestureParams : ~params[id]
                      /\ \A c \in Channels : ~stickActive[c]
C10_Witness == "stopStick" \in last /\ stickPos["left"] # <<0, 0>> /\ model # "none"

\* what a stop may not touch: mode, activity, PressedKeySet, every handle and
\* every parameter value, and the derived active flags
StopFrame(w) ==
  <<w.currentMode, w.currentState, w.pressedKeys, w.agentActionTimer, w.agentMouseTimer,
    w.agentMouseRaf, w.spyStickTimer, w.spyStickRaf, w.params, w.stickActive, w.model>>

storeVars ==
  <<currentMode, currentState, model, params, stickActive, stickPos, stickTarget, stickHas,
    spyStickTimer, spyStickRaf, agentActionTimer, agentMouseTimer, agentMouseRaf,
    supportKeys, backgroundImagePath, pressedKeys, holds, flights>>

\* C12: setMode with the current mode and setState with the current activity
\* change nothing: no scheduler is stopped or started, no reload begins, the
\* transient effect does not fire and PressedKeySet keeps its entries.
C12_SameValueNoop ==
  [][\A m \in Modes, s \in StateSet :
       /\ (m = currentMode /\ SetMode(m)) => (UNCHANGED storeVars /\ last' = {"sameValue"})
       /\ (s = currentState /\ SetState(s)) => (UNCHANGED storeVars /\ last' = {"sameValue"})]_vars
C12_Witness ==
  /\ last = {"sameValue"} /\ AgentRunning /\ DOMAIN pressedKeys # {} /\ flights # << >>

InFlight(kind) == {i \in DOMAIN requests : requests[i].kind = kind}

\* C13: status reconciliation never overlaps: an interval poll is issued only
\* after the request of the previous interval poll has settled and its result
\* was applied, so at most one interval poll awaits its response.
C13_NoOverlappingPolls == Cardinality(InFlight("poll")) <= 1

decisionVars == <<confirmingType, confirmingContext, canAlways, needsJumpOnly, jumpOnly>>

\* C14: a failed poll (transport error, non-2xx response, unparsable body)
\* leaves every field of the status record as it was, changes nothing in the
\* store or the decision prompt, and lets no error out.
C14_FailedPollChangesNothing ==
  [][\A i \in 1..MaxRequests, o \in Failures :
       PollResolve(i, o) =>
         /\ UNCHANGED <<currentStatus, storeVars, decisionVars, userInput, polling>>
         /\ escaped' = FALSE]_vars
C14_Witness ==
  /\ {"pollDone", "failed"} \subseteq last
  /\ currentStatus = Normalize(PermissionPoll)
  /\ currentState = "confirming"

\* C15: the status record is only ever replaced wholesale by a successful
\* poll and never partially merged: whenever it changes, every field of the
\* new record comes from one response body.
C15_OnlyWholesaleReplacement ==
  [][currentStatus' # currentStatus => \E d \in Bodies : currentStatus' = Normalize(d)]_vars

\* C16: every endpoint call goes through apiRequest, which answers null for a
\* non-2xx response or a transport failure and lets no exception out, so no
\* function of the Status Client ever throws.
C16_NoExceptionEscapes ==
  /\ escaped = FALSE
  /\ \A o \in Failures : ApiRequest(o) = [threw |-> FALSE, data |-> JsonNull]
C16_Witness ==
  /\ {"hookDone", "failed"} \subseteq last
  /\ \E i \in DOMAIN requests : requests[i].kind = "activate"
  /\ escaped = FALSE

\* C17: when a poll returns exactly {mode: spying, state: confirming,
\* hook_payload: {action: "ask_permission", data: {caption: "Allow? read file",
\* can_always: true}}}, the decision becomes a permission prompt with the text
\* "read file" and the always option.
C17_PermissionPromptFromPoll ==
  ({"pollDone", "statusReplaced"} \subseteq last /\ currentStatus = Normalize(PermissionPoll))
    => /\ confirmingType = "ask_permission"
       /\ confirmingContext = <<"read file">>
       /\ canAlways

HookPending(choice, input) ==
  /\ requests # << >>
  /\ requests[Len(requests)].kind = "hook"
  /\ requests[Len(requests)].choice = choice
  /\ requests[Len(requests)].input = input
DecisionCleared ==
  /\ confirmingType = "null" /\ confirmingContext = NoText
  /\ ~canAlways /\ ~jumpOnly

\* C18: a click on jump/cancel, on any decision kind, issues the hook response
\* ("__IGNORE__", "__IGNORE__"), makes the activity resting before the request
\* settles and clears the whole decision record (kind, text, always option,
\* jump-only flag) in the same step.
C18_JumpClearsDecision ==
  (last \cap {"cancel", "unknown"} # {})
    => /\ HookPending("__IGNORE__", Ignore)
       /\ currentState = "resting"
       /\ DecisionCleared

\* C19: for allow, deny, always and a non-empty submit the store is reset
\* (activity resting, decision record cleared) before the hook request settles.
C19_ResetBeforeSend ==
  (last \cap {"confirm", "submit"} # {})
    => /\ requests # << >> /\ requests[Len(requests)].kind = "hook"
       /\ currentState = "resting"
       /\ DecisionCleared

\* C20: a submit with empty or whitespace-only text on an input prompt sends
\* no hook response and leaves the activity and the decision record as they
\* were.
C20_EmptySubmitSuppressed ==
  [][(Trim(userInput) = NoText /\ HandleNotificationSubmit)
       => UNCHANGED <<requests, currentStatus, storeVars, decisionVars, userInput>>]_vars
C20_Witness ==
  /\ "submitEmpty" \in last
  /\ userInput = <<Blank>>
  /\ PanelShown /\ confirmingType = "ask_user"

DecisionPopulated == confirmingType # "null" \/ canAlways \/ jumpOnly \/ needsJumpOnly

\* C21: a pending decision exists only while the activity is confirming: in
\* every reachable state a populated decision record (kind set, or always
\* option, jump-only or generic-prompt flag set) implies currentState =
\* confirming.
C21_DecisionOnlyWhileConfirming == DecisionPopulated => currentState = "confirming"

\* ---------------------------------------------------------- Lightning Effect
\* The store with the revert timeouts of the lightning fallback followed: no
\* key is supported, a load may fail, and the timeouts fire at any later step.
InitLightning == Init /\ caps.gamepad = {} /\ scope = {"reverts"}
NextLightning ==
  \/ \E m \in Modes : SetMode(m)
  \/ \E s \in StateSet : SetState(s)
  \/ ToggleState
  \/ \E i \in 1..MaxFlights : FlightFrame(i)
  \/ \E i \in 1..MaxFlights, ok \in BOOLEAN : FlightLoad(i, ok)
  \/ \E i \in 1..MaxFlights : FlightBackground(i)
  \/ \E i \in 1..MaxFlights : FlightProbe(i)
  \/ LightningRevert
SpecLightning == InitLightning /\ [][NextLightning]_vars

\* C22: the lightning effect is played in exactly the steps in which the
\* activity changes to confirming and the mode after the step is spying; no
\* other step plays it (none in slacking, none on a change to resting or
\* working, none on a change of mode alone).
C22_LightningExactlyOnConfirmingWhileSpying ==
  [][("lightning" \in last') <=>
       (currentState' # currentState /\ currentState' = "confirming"
        /\ currentMode' = "spying")]_vars
C22_Witness == "lightning" \in last /\ currentState = "confirming" /\ currentMode = "spying"

\* C23: at most one revert timeout of the lightning effect is pending.
C23_AtMostOneRevertPending == lightningReverts <= 1

\* ---------------------------------------------------------- Puppet Controller
\* the hand-down value the controller is to write for channel c, from the
\* four inputs of the watcher as they stand
HandDownOf(c) ==
  \/ stickActive[c]
  \/ \E k \in DOMAIN pressedKeys : pressedKeys[k].group = (IF c = "left" THEN "left-keys" ELSE "right-keys")
  \/ (currentMode = "spying" /\ currentState = "working" /\ pressedKeys = EmptyMap)

\* C24: a run of the Reactive Puppet Controller on the inputs of any reachable
\* state with a model attached leaves, for each hand, the hand-down parameter
\* equal to (channel active) or (a pressed key of that hand's group) or
\* (spying and working and no key pressed); a second run on the same inputs
\* leaves the same values.
C24_HandDownFormula ==
  model # "none" =>
    /\ \A c \in Channels : HandControl(Cur).params[HandParams[c]] = HandDownOf(c)
    /\ HandControl(HandControl(Cur)).params = HandControl(Cur).params
C24_Witness ==
  /\ model # "none"
  /\ pressedKeys # EmptyMap
  /\ currentMode = "spying" /\ currentState = "working"
  /\ \E c \in Channels : ~HandDownOf(c) /\ params[HandParams[c]] = FALSE
  /\ \E c \in Channels : HandDownOf(c) /\ params[HandParams[c]] = TRUE

\* C25: while a key is pressed and a model is attached, both gesture-hand
\* visibility parameters are false.
C25_KeysHideStickHands ==
  (pressedKeys # EmptyMap /\ model # "none") =>
    \A c \in Channels : params[StickParams[c].show] = FALSE

\* ---------------------------------------------------------- Mode Transition
\* C26: a failed model load of a mode transition is caught: the step in which
\* the load fails changes neither the mode nor the activity and ends no
\* transition; the transition goes on with loadResources (it awaits the
\* background fetch next), and so to its tail.
C26_FailedReloadIsCaught ==
  [][("loadFailed" \in last') =>
       /\ currentMode' = currentMode
       /\ currentState' = currentState
       /\ Len(flights') = Len(flights)
       /\ \E i \in DOMAIN flights : flights[i].pc = "load" /\ flights'[i].pc = "bg"]_vars
\* a flip to spying whose load failed has run its tail
C26_Witness ==
  /\ "flipSettled" \in last
  /\ model = "none"
  /\ currentMode = "spying"
  /\ flights = << >>

\* ---------------------------------------------------------- Model Reload
\* The mode transitions alone, with a second transition allowed to begin
\* while the first is in flight; every load succeeds.
InitReload == Init /\ caps.gamepad = {} /\ scope = {"overlap"}
NextReload ==
  \/ \E m \in Modes : SetMode(m)
  \/ \E i \in 1..(MaxFlights + 1) : FlightFrame(i)
  \/ \E i \in 1..(MaxFlights + 1) : FlightLoad(i, TRUE)
  \/ \E i \in 1..(MaxFlights + 1) : FlightBackground(i)
  \/ \E i \in 1..(MaxFlights + 1) : FlightProbe(i)
SpecReload == InitReload /\ [][NextReload]_vars

\* C27: the stage holds at most one model at every instant, and what it holds
\* is the model live2d.model refers to, whatever the interleaving of loads
\* and destroys; so after load A, destroy, load B only B is attached.
C27_AtMostOneAttached ==
  /\ Len(stage) <= 1
  /\ stage = (IF model = "none" THEN << >> ELSE << model >>)
\* a load that resolved after a later one did: the later model was attached
\* and has been replaced
C27_Witness ==
  /\ Len(flights) = 2
  /\ \A i \in 1..2 : flights[i].pc \in {"bg", "probe"}
  /\ flights[1].loadPath # flights[2].loadPath
  /\ model = flights[1].loadPath
  /\ stage = << model >>

\* C30: once no transition is in flight, the attached model is the model of
\* the current mode.
C30_SettledModelMatchesMode == flights = << >> => model = ModelPath(currentMode)

\* ---------------------------------------------------------- Parameter Surface
\* getParameterRange(id) is (0,0): no model is attached, or the attached
\* model does not declare the parameter
ZeroRange(id) ==
  model = "none" \/ (ParamChannel(id) # "none" /\ ParamChannel(id) \notin caps[model])

C29_NoRightChannelWrite ==
  [][(currentMode = "slacking" /\ model # "none" /\ caps[model] = {"left"}) =>
       last' \cap {StickParams.right.show, StickParams.right.down} = {}]_vars

\* ---------------------------------------------------------- Status Client
\* C31: sendHookResponse returns true only for a 2xx response whose body
\* reports success: true; a transport failure, a non-2xx status and a body
\* of {success: false} give false.
C31_TrueOnlyWhenDelivered ==
  ("hookDone" \in last /\ "postOk" \in last) => ("failed" \notin last /\ "refused" \notin last)

\* ---------------------------------------------------------- Key Pulses
\* C33: a hold-release timer only ever removes: the step in which one fires
\* adds no key to pressedKeys, also when a mode flip has emptied pressedKeys
\* before it fires.
C33_ReleaseNeverInserts ==
  [][("holdRemoved" \in last' \/ "holdIdle" \in last') =>
       /\ DOMAIN pressedKeys' \subseteq DOMAIN pressedKeys
       /\ \A k \in DOMAIN pressedKeys' : pressedKeys'[k] = pressedKeys[k]]_vars
\* the timer of a pulse made in spying fired after the flip to slacking found
\* nothing to remove
C33_Witness ==
  /\ "holdIdle" \in last
  /\ currentMode = "slacking"
  /\ pressedKeys = EmptyMap

\* C35: at most one animation frame of the pointer walk is pending.
C35_OneWalkFrame == Pending(agentMouseRaf) <= 1
\* two pointer cadence chains are alive and a walk is in flight
C35_Witness == Pending(agentMouseTimer) >= 2 /\ agentMouseRaf.tracked

\* The Autonomous Action Scheduler with timers that fire: a pending
\* hold-release timeout is not postponed for ever.
SpecAgentFair == SpecAgent /\ \A k \in TestKeys : WF_vars(HoldRelease(k))

\* C34: a key a pulse has put into pressedKeys (its hold-release timer is
\* pending) is eventually out of pressedKeys again, whatever stops, flips or
\* activity changes happen in between.
C34_PulseKeyEventuallyReleased ==
  \A k \in TestKeys : (holds[k] > 0 /\ k \in DOMAIN pressedKeys) ~> (k \notin DOMAIN pressedKeys)
\* the timer of a pulse removed the key after the scheduler had been stopped
C34_Witness ==
  /\ "holdRemoved" \in last
  /\ ~(currentMode = "spying" /\ currentState = "working")
  /\ pressedKeys = EmptyMap

\* The key pulses alone, with a second pulse allowed while the hold-release
\* timer of the first is pending.
InitPulse == Init /\ caps.gamepad = {} /\ scope = {"pulses"}
NextPulse ==
  \/ \E m \in Modes : SetMode(m)
  \/ \E s \in StateSet : SetState(s)
  \/ TestKeyRelease
  \/ \E i \in 1..MaxFlights : FlightFrame(i)
  \/ \E i \in 1..MaxFlights : FlightLoad(i, TRUE)
  \/ \E i \in 1..MaxFlights : FlightBackground(i)
  \/ \E i \in 1..MaxFlights : FlightProbe(i)
  \/ \E kind \in SlotKinds : KeyTimer(kind)
  \/ \E k \in TestKeys : HoldRelease(k)
SpecPulse == InitPulse /\ [][NextPulse]_vars

\* C36: the hold-release timer of an earlier pulse never removes the entry a
\* later pulse put for the same key while that pulse's own timer is pending.
C36_OnlyOwnTimerReleases ==
  [][\A k \in TestKeys :
       ("holdOther" \in last' /\ k \in ownHold /\ k \in DOMAIN pressedKeys)
         => k \in DOMAIN pressedKeys']_vars

\* ---------------------------------------------------------- Pointer Walk
\* The pointer walk alone, with the ratio it writes followed.
InitPointer == Init /\ caps.gamepad = {} /\ scope = {"pointer"}
NextPointer ==
  \/ \E m \in Modes : SetMode(m)
  \/ \E s \in StateSet : SetState(s)
  \/ \E i \in 1..MaxFlights : FlightFrame(i)
  \/ \E i \in 1..MaxFlights : FlightLoad(i, TRUE)
  \/ \E i \in 1..MaxFlights : FlightBackground(i)
  \/ \E i \in 1..MaxFlights : FlightProbe(i)
  \/ \E kind \in SlotKinds : MouseTimer(kind)
  \/ \E kind \in SlotKinds, more \in BOOLEAN : MouseFrame(kind, more)
SpecPointer == InitPointer /\ [][NextPointer]_vars

C37_PollSetsLocalState ==
  ({"pollDone", "statusReplaced"} \subseteq last) => currentState = currentStatus.state

\* C38: between two consecutive entries of the activity into confirming at
\* most one hook response is sent. Stated on single steps, which gives the
\* bound by induction: every step that posts a hook response starts with the
\* activity confirming and ends with it not confirming, so a second response
\* needs a new entry into confirming first.
C38_OneResponsePerConfirming ==
  [][Cardinality(InFlight("hook"))' > Cardinality(InFlight("hook"))
       => currentState = "confirming" /\ currentState' # "confirming"]_vars
C38_Witness ==
  /\ {"hookSent", "confirm"} \subseteq last
  /\ Cardinality(InFlight("hook")) = 2
  /\ currentState = "resting"

\* The Status Client with the order of arrival followed: the requests of the
\* interval and of the mode button settle in any order.
InitOrder == Init /\ caps.gamepad = {} /\ scope = {"order"}
SpecOrder == InitOrder /\ [][NextPoll]_vars

\* C39: with several status requests in flight the status record ends up with
\* the response of the request issued last: the response of a request that was
\* issued before one whose response has already been applied never replaces
\* the record.
C39_LateResponseNeverApplied == "lateResponse" \in last => "statusReplaced" \notin last

\* ---------------------------------------------------------- Resource Loading
\* C40: once no resource loading is in progress, every path of supportKeys
\* and the background path lie under the resource root of the current mode,
\* also when a mode change began while an earlier loadResources was still
\* probing files.
C40_SettledResourcesUnderRoot ==
  flights = << >> =>
    /\ \A k \in DOMAIN supportKeys : supportKeys[k].root = ResourcesPath(currentMode)
    /\ backgroundImagePath \in {"none", ResourcesPath(currentMode)}
============================================================================
